---- MODULE Spec2Model ----
(***************************************************************************)
(* Model of ProductServices (server/src/modules/product/product.services.ts)*)
(* create, addToStock and bulkDelete running concurrently against a        *)
(* MongoDB deployment: every write that carries { session } is buffered in *)
(* the caller's transaction and becomes visible at commitTransaction; a    *)
(* call without a session (Seller.findById, deleteMany) reads or writes    *)
(* the committed data directly.                                            *)
(***************************************************************************)
EXTENDS Integers, Sequences, FiniteSets, TLC

\* ---------------------------------------------------------------- bounds
MaxCalls == 2       \* calls of create / addToStock / bulkDelete per behaviour

\* ---------------------------------------------------------------- domains
Procs == {"r1", "r2"}            \* requests in flight at the same time
SellerIds == {"S1", "S2"}
Users == {"U1", "U2"}
TargetIds == {1}                 \* ids addToStock and bulkDelete are called with
Null == [null |-> TRUE]          \* JavaScript null / undefined
NoError == [status |-> 0, message |-> <<>>]

SellerName(s) == IF s = "S1" THEN "Acme" ELSE "Bolt"

\* payloads of create: a function on the keys that are present
Keys == {"name", "price", "seller", "stock"}
StringKeys == {"name", "seller"}
PriceValues == {2}
StockValues == {1}
Deltas == {0 - 1, 1}
Owners == {"U1"}                 \* users that create products
Removable == {"S2"}              \* sellers another actor may remove

Restrict(f, D) == [k \in D |-> f[k]]

ValidPayloads ==
    [name : {"Widget"}, price : PriceValues, seller : SellerIds, stock : StockValues]

BasePayload == [name |-> "Widget", price |-> 2, seller |-> "S1", stock |-> 1]

\* a required key absent, the empty string, or a price of 0
DefectivePayloads ==
    { Restrict(BasePayload, Keys \ {k}) : k \in {"name", "price", "seller"} }
    \cup { [BasePayload EXCEPT ![k] = ""] : k \in StringKeys }
    \cup { [BasePayload EXCEPT !.price = 0] }

CreatePayloads == ValidPayloads \cup DefectivePayloads

\* ---------------------------------------------------------------- state
VARIABLES
    sellers,      \* ids of the Seller documents that exist
    products,     \* committed Product documents, by _id
    purchases,    \* committed Purchase documents, in commit order
    nextId,       \* next _id the Product model generates
    calls,        \* calls started so far
    deleting,     \* ids a running bulkDelete has still to delete
    pc,           \* position of each request
    op,           \* "create" / "addToStock" / "none"
    arg,          \* arguments of the running call
    seller,       \* result of Seller.findById
    product,      \* the local `product` of the running call
    txn,          \* the session's transaction: state and buffered writes
    thrown,       \* error caught by the catch block
    err,          \* error the call rejects with
    result,       \* value the call resolves with
    aborts,       \* abortTransaction calls of the running call
    ends          \* endSession calls of the running call

vars == <<sellers, products, purchases, nextId, calls, deleting, pc, op, arg,
          seller, product, txn, thrown, err, result, aborts, ends>>

dbVars == <<products, purchases>>

NoTxn == [state |-> "none", prodW |-> {}, purW |-> <<>>]
NoArg == [id |-> 0, payload |-> [stock |-> 0], user |-> ""]

\* ---------------------------------------------------------------- helpers
\* lines 24-28: delete every key whose value is the empty string
StripEmpty(payload) ==
    Restrict(payload, {k \in DOMAIN payload :
                          ~(k \in StringKeys /\ payload[k] = "")})

\* JavaScript truthiness of payload[k] (absent, "" and 0 are falsy)
Truthy(payload, k) ==
    /\ k \in DOMAIN payload
    /\ IF k \in StringKeys THEN payload[k] # "" ELSE payload[k] # 0

\* line 31
MissingRequired_NoPriceCheck(payload) ==
    ~Truthy(payload, "name") \/ ~Truthy(payload, "seller")

MissingRequired(payload) ==
    ~Truthy(payload, "name") \/ ~Truthy(payload, "price") \/ ~Truthy(payload, "seller")

CustomError(status, message) == [status |-> status, message |-> message]

MissingFieldsError == CustomError(400, <<"Missing required fields: name, price, or seller">>)
InvalidSellerError == CustomError(400, <<"Invalid seller ID provided">>)
ProductNotFoundError == CustomError(404, <<"Product not found">>)
\* errors raised by the driver carry no HTTP status
StorageError == [status |-> 0, message |-> <<"storage error">>]
WriteConflictError == [status |-> 0, message |-> <<"WriteConflict">>]
AbortAfterCommitError ==
    [status |-> 0, message |-> <<"Cannot call abortTransaction after calling commitTransaction">>]

\* lines 72 and 196: new CustomError(400, `<prefix>: ${error.message}`)
WrapError(prefix, error) == CustomError(400, <<prefix>> \o error.message)

ErrorPrefix(o) == IF o = "create" THEN "Product create failed" ELSE "Stock update failed"

\* mutant: the lookup never answers null
FindSellerById_AlwaysFound(ss, id) == [id |-> id, name |-> SellerName(id)]

\* Seller.findById(id): the document, or null
FindSellerById(ss, id) ==
    IF id \in ss THEN [id |-> id, name |-> SellerName(id)] ELSE Null

\* mutant: totalPrice added up instead of multiplied
CreatePurchaseDoc_SumTotal(userId, s, id, doc) ==
    [ user |-> userId,
      seller |-> doc.seller,
      product |-> id,
      sellerName |-> s.name,
      productName |-> doc.name,
      quantity |-> doc.stock,
      unitPrice |-> doc.price,
      totalPrice |-> doc.stock + doc.price ]

\* the Purchase document of create, lines 53-62
CreatePurchaseDoc(userId, s, id, doc) ==
    [ user |-> userId,
      seller |-> doc.seller,
      product |-> id,
      sellerName |-> s.name,
      productName |-> doc.name,
      quantity |-> doc.stock,
      unitPrice |-> doc.price,
      totalPrice |-> doc.stock * doc.price ]

\* mutant: quantity taken from the product read back, not from the payload
AddPurchaseDoc_QuantityFromProduct(userId, s, id, doc, payload) ==
    [ user |-> userId,
      seller |-> doc.seller,
      product |-> id,
      sellerName |-> s.name,
      productName |-> doc.name,
      quantity |-> doc.stock,
      unitPrice |-> doc.price,
      totalPrice |-> doc.stock * doc.price ]

\* the Purchase document of addToStock, lines 177-186
AddPurchaseDoc(userId, s, id, doc, payload) ==
    [ user |-> userId,
      seller |-> doc.seller,
      product |-> id,
      sellerName |-> s.name,
      productName |-> doc.name,
      quantity |-> payload.stock,
      unitPrice |-> doc.price,
      totalPrice |-> payload.stock * doc.price ]

\* mutant: $set instead of $inc
IncStock_Set(doc, delta) == [doc EXCEPT !.stock = delta]

\* { $inc: { stock: delta } }
IncStock_TouchesPrice(doc, delta) == [doc EXCEPT !.stock = @ + delta, !.price = @ + 1]

IncStock(doc, delta) == [doc EXCEPT !.stock = @ + delta]

\* a document is write-locked while another open transaction has written it
Locked(p, id) ==
    \E q \in Procs \ {p} :
        txn[q].state = "inProgress" /\ \E w \in txn[q].prodW : w.id = id

\* commitTransaction makes the buffered writes visible in one step
ApplyProductWrites(prods, writes) ==
    [i \in DOMAIN prods \cup {w.id : w \in writes} |->
        IF \E w \in writes : w.id = i
        THEN (CHOOSE w \in writes : w.id = i).doc
        ELSE prods[i]]

ApplyPurchaseWrites(ledger, writes) == ledger \o writes

\* The database the service starts on: empty, or holding one product together
\* with the Purchase its create wrote (the state a committed
\* create(BasePayload, "U1") leaves behind).
SeedProduct ==
    [ name |-> BasePayload.name, price |-> BasePayload.price, stock |-> BasePayload.stock,
      seller |-> BasePayload.seller, user |-> "U1" ]

SeedPurchase ==
    CreatePurchaseDoc("U1", FindSellerById(SellerIds, BasePayload.seller), 1, SeedProduct)

Init ==
    /\ sellers = SellerIds
    /\ \/ products = <<>> /\ purchases = <<>> /\ nextId = 1
       \/ products = <<SeedProduct>> /\ purchases = <<SeedPurchase>> /\ nextId = 2
    /\ calls = 0
    /\ deleting = {}
    /\ pc = [p \in Procs |-> "idle"]
    /\ op = [p \in Procs |-> "none"]
    /\ arg = [p \in Procs |-> NoArg]
    /\ seller = [p \in Procs |-> Null]
    /\ product = [p \in Procs |-> Null]
    /\ txn = [p \in Procs |-> NoTxn]
    /\ thrown = [p \in Procs |-> NoError]
    /\ err = [p \in Procs |-> NoError]
    /\ result = [p \in Procs |-> Null]
    /\ aborts = [p \in Procs |-> 0]
    /\ ends = [p \in Procs |-> 0]

\* ---------------------------------------------------------------- calls
Idle(p) == pc[p] \in {"idle", "Returned", "Failed"}

\* a request is served in r2 only while r1 is serving another one
Free(p) == Idle(p) /\ (p = "r2" => ~Idle("r1"))

\* what a new call starts from: fresh locals, no session yet
ResetLocals(p) ==
    /\ UNCHANGED <<seller, product, thrown>>
    /\ result' = [result EXCEPT ![p] = Null]
    /\ aborts' = [aborts EXCEPT ![p] = 0]
    /\ ends' = [ends EXCEPT ![p] = 0]

\* create, lines 20-39: strip, validate, startSession, startTransaction
CreateCall(p, payload, userId) ==
    /\ Free(p)
    /\ calls < MaxCalls
    /\ calls' = calls + 1
    /\ op' = [op EXCEPT ![p] = "create"]
    /\ ResetLocals(p)
    /\ LET stripped == StripEmpty(payload) IN
         /\ arg' = [arg EXCEPT ![p] = [id |-> 0, payload |-> stripped, user |-> userId]]
         /\ IF MissingRequired(stripped)
            THEN /\ pc' = [pc EXCEPT ![p] = "Failed"]
                 /\ err' = [err EXCEPT ![p] = MissingFieldsError]
                 /\ txn' = [txn EXCEPT ![p] = NoTxn]
            ELSE /\ pc' = [pc EXCEPT ![p] = "Started"]
                 /\ err' = [err EXCEPT ![p] = NoError]
                 /\ txn' = [txn EXCEPT ![p] = [NoTxn EXCEPT !.state = "inProgress"]]
    /\ UNCHANGED <<sellers, products, purchases, nextId, deleting>>

\* addToStock, lines 154-158: startSession, startTransaction
AddToStockCall(p, id, payload, userId) ==
    /\ Free(p)
    /\ calls < MaxCalls
    /\ calls' = calls + 1
    /\ op' = [op EXCEPT ![p] = "addToStock"]
    /\ ResetLocals(p)
    /\ arg' = [arg EXCEPT ![p] = [id |-> id, payload |-> payload, user |-> userId]]
    /\ pc' = [pc EXCEPT ![p] = "Started"]
    /\ err' = [err EXCEPT ![p] = NoError]
    /\ txn' = [txn EXCEPT ![p] = [NoTxn EXCEPT !.state = "inProgress"]]
    /\ UNCHANGED <<sellers, products, purchases, nextId, deleting>>

\* a throw inside the try block: control goes to the catch block
Throw(p, error) ==
    /\ thrown' = [thrown EXCEPT ![p] = error]
    /\ pc' = [pc EXCEPT ![p] = "Caught"]

\* mutant: the null check after the lookup is missing
FindSeller_NoNullCheck(p) ==
    /\ pc[p] = "Started"
    /\ \E ok \in BOOLEAN :
         IF ~ok
         THEN /\ Throw(p, StorageError)
              /\ UNCHANGED seller
         ELSE /\ seller' = [seller EXCEPT ![p] = FindSellerById(sellers, arg[p].payload.seller)]
              /\ pc' = [pc EXCEPT ![p] = "SellerValidated"]
              /\ UNCHANGED thrown
    /\ UNCHANGED <<sellers, products, purchases, nextId, calls, deleting, op, arg,
                   product, txn, err, result, aborts, ends>>

\* lines 42-45 and 160-163: Seller.findById outside the session, null check
FindSeller(p) ==
    /\ pc[p] = "Started"
    /\ \E ok \in BOOLEAN :
         IF ~ok
         THEN /\ Throw(p, StorageError)
              /\ UNCHANGED seller
         ELSE LET found == FindSellerById(sellers, arg[p].payload.seller) IN
                /\ seller' = [seller EXCEPT ![p] = found]
                /\ IF found = Null
                   THEN Throw(p, InvalidSellerError)
                   ELSE /\ pc' = [pc EXCEPT ![p] = "SellerValidated"]
                        /\ UNCHANGED thrown
    /\ UNCHANGED <<sellers, products, purchases, nextId, calls, deleting, op, arg,
                   product, txn, err, result, aborts, ends>>

CreateFindSeller(p) == op[p] = "create" /\ FindSeller(p)

AddFindSeller(p) == op[p] = "addToStock" /\ FindSeller(p)

\* mutant: { session } left out, the insert is visible at once
CreateProduct_NoSession(p) ==
    /\ op[p] = "create"
    /\ pc[p] = "SellerValidated"
    /\ \E ok \in BOOLEAN :
         IF ~ok
         THEN /\ Throw(p, StorageError)
              /\ UNCHANGED <<nextId, product, products>>
         ELSE LET doc == [ name |-> arg[p].payload.name,
                           price |-> arg[p].payload.price,
                           stock |-> arg[p].payload.stock,
                           seller |-> arg[p].payload.seller,
                           user |-> arg[p].user ]
              IN /\ nextId' = nextId + 1
                 /\ product' = [product EXCEPT ![p] = [id |-> nextId, doc |-> doc]]
                 /\ products' = ApplyProductWrites(products, {[id |-> nextId, doc |-> doc]})
                 /\ pc' = [pc EXCEPT ![p] = "ProductMutated"]
                 /\ UNCHANGED thrown
    /\ UNCHANGED <<sellers, purchases, calls, deleting, op, arg, seller, txn,
                   err, result, aborts, ends>>

\* line 48: this.model.create([payload], { session })
CreateProduct(p) ==
    /\ op[p] = "create"
    /\ pc[p] = "SellerValidated"
    /\ \E ok \in BOOLEAN :
         IF ~ok
         THEN /\ Throw(p, StorageError)
              /\ UNCHANGED <<nextId, product, txn>>
         ELSE LET doc == [ name |-> arg[p].payload.name,
                           price |-> arg[p].payload.price,
                           stock |-> arg[p].payload.stock,
                           seller |-> arg[p].payload.seller,
                           user |-> arg[p].user ]
              IN /\ nextId' = nextId + 1
                 /\ product' = [product EXCEPT ![p] = [id |-> nextId, doc |-> doc]]
                 /\ txn' = [txn EXCEPT ![p].prodW = {[id |-> nextId, doc |-> doc]}]
                 /\ pc' = [pc EXCEPT ![p] = "ProductMutated"]
                 /\ UNCHANGED thrown
    /\ UNCHANGED <<sellers, products, purchases, calls, deleting, op, arg, seller,
                   err, result, aborts, ends>>

\* mutant: the increment is computed from a read that takes no write lock
AddFindByIdAndUpdate_NoConflict(p) ==
    /\ op[p] = "addToStock"
    /\ pc[p] = "SellerValidated"
    /\ \E ok \in BOOLEAN :
         LET id == arg[p].id IN
         IF ~ok
         THEN /\ Throw(p, StorageError)
              /\ UNCHANGED <<product, txn>>
         ELSE IF id \notin DOMAIN products
         THEN /\ Throw(p, ProductNotFoundError)
              /\ UNCHANGED <<product, txn>>
         ELSE /\ product' = [product EXCEPT ![p] = [id |-> id, doc |-> products[id]]]
              /\ txn' = [txn EXCEPT ![p].prodW =
                            {[id |-> id, doc |-> IncStock(products[id], arg[p].payload.stock)]}]
              /\ pc' = [pc EXCEPT ![p] = "ProductMutated"]
              /\ UNCHANGED thrown
    /\ UNCHANGED <<sellers, products, purchases, nextId, calls, deleting, op, arg,
                   seller, err, result, aborts, ends>>

\* lines 165-173: findByIdAndUpdate(id, { $inc }, { session }) answers with the
\* document as it was before the update, or null; then the null check
AddFindByIdAndUpdate(p) ==
    /\ op[p] = "addToStock"
    /\ pc[p] = "SellerValidated"
    /\ \E ok \in BOOLEAN :
         LET id == arg[p].id IN
         IF ~ok
         THEN /\ Throw(p, StorageError)
              /\ UNCHANGED <<product, txn>>
         ELSE IF Locked(p, id)
         THEN /\ Throw(p, WriteConflictError)
              /\ UNCHANGED <<product, txn>>
         ELSE IF id \notin DOMAIN products
         THEN /\ Throw(p, ProductNotFoundError)
              /\ UNCHANGED <<product, txn>>
         ELSE /\ product' = [product EXCEPT ![p] = [id |-> id, doc |-> products[id]]]
              /\ txn' = [txn EXCEPT ![p].prodW =
                            {[id |-> id, doc |-> IncStock(products[id], arg[p].payload.stock)]}]
              /\ pc' = [pc EXCEPT ![p] = "ProductMutated"]
              /\ UNCHANGED thrown
    /\ UNCHANGED <<sellers, products, purchases, nextId, calls, deleting, op, arg,
                   seller, err, result, aborts, ends>>

\* Purchase.create([doc], { session })
AppendPurchase(p, doc) ==
    /\ pc[p] = "ProductMutated"
    /\ \E ok \in BOOLEAN :
         IF ~ok
         THEN /\ Throw(p, StorageError)
              /\ UNCHANGED txn
         ELSE /\ txn' = [txn EXCEPT ![p].purW = <<doc>>]
              /\ pc' = [pc EXCEPT ![p] = "LedgerAppended"]
              /\ UNCHANGED thrown
    /\ UNCHANGED <<sellers, products, purchases, nextId, calls, deleting, op, arg,
                   seller, product, err, result, aborts, ends>>

\* mutant: { session } left out, the Purchase is visible at once
CreatePurchase_NoSession(p) ==
    /\ op[p] = "create"
    /\ pc[p] = "ProductMutated"
    /\ \E ok \in BOOLEAN :
         IF ~ok
         THEN /\ Throw(p, StorageError)
              /\ UNCHANGED purchases
         ELSE /\ purchases' = Append(purchases,
                                CreatePurchaseDoc(arg[p].user, seller[p], product[p].id,
                                                  product[p].doc))
              /\ pc' = [pc EXCEPT ![p] = "LedgerAppended"]
              /\ UNCHANGED thrown
    /\ UNCHANGED <<sellers, products, nextId, calls, deleting, op, arg,
                   seller, product, txn, err, result, aborts, ends>>

\* lines 51-65
CreatePurchase(p) ==
    /\ op[p] = "create"
    /\ pc[p] = "ProductMutated"
    /\ AppendPurchase(p, CreatePurchaseDoc(arg[p].user, seller[p], product[p].id,
                                           product[p].doc))

\* lines 175-189
AddPurchase(p) ==
    /\ op[p] = "addToStock"
    /\ pc[p] = "ProductMutated"
    /\ AppendPurchase(p, AddPurchaseDoc(arg[p].user, seller[p], product[p].id,
                                        product[p].doc, arg[p].payload))

\* lines 67-68 and 191-192: commitTransaction, return product
Commit(p) ==
    /\ pc[p] = "LedgerAppended"
    /\ \E ok \in BOOLEAN :
         IF ~ok
         THEN /\ Throw(p, StorageError)
              /\ txn' = [txn EXCEPT ![p].state = "commitFailed"]
              /\ UNCHANGED <<products, purchases, result>>
         ELSE /\ products' = ApplyProductWrites(products, txn[p].prodW)
              /\ purchases' = ApplyPurchaseWrites(purchases, txn[p].purW)
              /\ txn' = [txn EXCEPT ![p].state = "committed"]
              /\ result' = [result EXCEPT ![p] = product[p]]
              /\ pc' = [pc EXCEPT ![p] = "Committed"]
              /\ UNCHANGED thrown
    /\ UNCHANGED <<sellers, nextId, calls, deleting, op, arg, seller, product, err,
                   aborts, ends>>

CreateCommit(p) == op[p] = "create" /\ Commit(p)

AddCommit(p) == op[p] = "addToStock" /\ Commit(p)

\* mutant: the catch block rethrows without calling abortTransaction
Abort_Skipped(p) ==
    /\ pc[p] = "Caught"
    /\ txn' = [txn EXCEPT ![p] = [state |-> "aborted", prodW |-> {}, purW |-> <<>>]]
    /\ err' = [err EXCEPT ![p] = WrapError(ErrorPrefix(op[p]), thrown[p])]
    /\ pc' = [pc EXCEPT ![p] = "Aborted"]
    /\ UNCHANGED <<sellers, products, purchases, nextId, calls, deleting, op, arg,
                   seller, product, thrown, result, aborts, ends>>

\* lines 69-72 and 193-196: abortTransaction, then throw the wrapped error.
\* abortTransaction of a transaction whose commit was attempted may itself
\* throw; then that error leaves the catch block instead.
Abort(p) ==
    /\ pc[p] = "Caught"
    /\ aborts' = [aborts EXCEPT ![p] = @ + 1]
    /\ txn' = [txn EXCEPT ![p] = [state |-> "aborted", prodW |-> {}, purW |-> <<>>]]
    /\ \E abortThrows \in BOOLEAN :
         /\ abortThrows => txn[p].state = "commitFailed"
         /\ err' = [err EXCEPT ![p] =
                      IF abortThrows THEN AbortAfterCommitError
                      ELSE WrapError(ErrorPrefix(op[p]), thrown[p])]
    /\ pc' = [pc EXCEPT ![p] = "Aborted"]
    /\ UNCHANGED <<sellers, products, purchases, nextId, calls, deleting, op, arg,
                   seller, product, thrown, result, ends>>

CreateAbort(p) == op[p] = "create" /\ Abort(p)

AddAbort(p) == op[p] = "addToStock" /\ Abort(p)

\* lines 73-75 and 197-199: finally endSession, then the call settles
EndSession_NotInFinally(p) ==
    /\ pc[p] \in {"Committed", "Aborted"}
    /\ ends' = [ends EXCEPT ![p] = IF pc[p] = "Committed" THEN @ + 1 ELSE @]
    /\ pc' = [pc EXCEPT ![p] = IF pc[p] = "Committed" THEN "Returned" ELSE "Failed"]
    /\ seller' = [seller EXCEPT ![p] = Null]
    /\ product' = [product EXCEPT ![p] = Null]
    /\ thrown' = [thrown EXCEPT ![p] = NoError]
    /\ txn' = [txn EXCEPT ![p] = NoTxn]
    /\ arg' = [arg EXCEPT ![p] = NoArg]
    /\ UNCHANGED <<sellers, products, purchases, nextId, calls, deleting, op,
                   err, result, aborts>>

EndSession(p) ==
    /\ pc[p] \in {"Committed", "Aborted"}
    /\ ends' = [ends EXCEPT ![p] = @ + 1]
    /\ pc' = [pc EXCEPT ![p] = IF pc[p] = "Committed" THEN "Returned" ELSE "Failed"]
    /\ seller' = [seller EXCEPT ![p] = Null]
    /\ product' = [product EXCEPT ![p] = Null]
    /\ thrown' = [thrown EXCEPT ![p] = NoError]
    /\ txn' = [txn EXCEPT ![p] = NoTxn]
    /\ arg' = [arg EXCEPT ![p] = NoArg]
    /\ UNCHANGED <<sellers, products, purchases, nextId, calls, deleting, op,
                   err, result, aborts>>

CreateEndSession(p) == op[p] = "create" /\ EndSession(p)

AddEndSession(p) == op[p] = "addToStock" /\ EndSession(p)

\* lines 145-149: deleteMany({ _id: { $in: data } }), no session
BulkDelete(ids) ==
    /\ deleting = {}
    /\ calls < MaxCalls
    /\ calls' = calls + 1
    /\ deleting' = ids
    /\ UNCHANGED <<sellers, products, purchases, nextId, pc, op, arg, seller, product,
                   txn, thrown, err, result, aborts, ends>>

\* mutant: the delete cascades to the Purchase entries of the product
BulkDeleteStep_Cascade(id) ==
    /\ id \in deleting
    /\ \A p \in Procs : ~(txn[p].state = "inProgress" /\ \E w \in txn[p].prodW : w.id = id)
    /\ deleting' = deleting \ {id}
    /\ products' = Restrict(products, DOMAIN products \ {id})
    /\ purchases' = SelectSeq(purchases, LAMBDA e : e.product # id)
    /\ UNCHANGED <<sellers, nextId, calls, pc, op, arg, seller, product,
                   txn, thrown, err, result, aborts, ends>>

\* deleteMany removes the matching documents one at a time; a document that
\* an open transaction has written is removed once that transaction ends
BulkDeleteStep(id) ==
    /\ id \in deleting
    /\ \A p \in Procs : ~(txn[p].state = "inProgress" /\ \E w \in txn[p].prodW : w.id = id)
    /\ deleting' = deleting \ {id}
    /\ products' = Restrict(products, DOMAIN products \ {id})
    /\ UNCHANGED <<sellers, purchases, nextId, calls, pc, op, arg, seller, product,
                   txn, thrown, err, result, aborts, ends>>

\* another actor of the application removes a Seller document
RemoveSeller(s) ==
    /\ s \in sellers
    /\ sellers' = sellers \ {s}
    /\ UNCHANGED <<products, purchases, nextId, calls, deleting, pc, op, arg, seller,
                   product, txn, thrown, err, result, aborts, ends>>

AddPayloads == [seller : SellerIds, stock : Deltas]

Next ==
    \/ \E p \in Procs, payload \in CreatePayloads, u \in Owners : CreateCall(p, payload, u)
    \/ \E p \in Procs, id \in TargetIds, payload \in AddPayloads, u \in Users :
          AddToStockCall(p, id, payload, u)
    \/ \E p \in Procs : CreateFindSeller(p)
    \/ \E p \in Procs : AddFindSeller(p)
    \/ \E p \in Procs : CreateProduct(p)
    \/ \E p \in Procs : AddFindByIdAndUpdate(p)
    \/ \E p \in Procs : CreatePurchase(p)
    \/ \E p \in Procs : AddPurchase(p)
    \/ \E p \in Procs : CreateCommit(p)
    \/ \E p \in Procs : AddCommit(p)
    \/ \E p \in Procs : CreateAbort(p)
    \/ \E p \in Procs : AddAbort(p)
    \/ \E p \in Procs : CreateEndSession(p)
    \/ \E p \in Procs : AddEndSession(p)
    \/ \E ids \in SUBSET TargetIds \ {{}} : BulkDelete(ids)
    \/ \E id \in TargetIds : BulkDeleteStep(id)
    \/ \E s \in Removable : RemoveSeller(s)

Spec == Init /\ [][Next]_vars

\* the steps of request p after its call has started: each is the continuation
\* of an awaited promise, which the event loop runs once the promise settles
Step(p) ==
    \/ CreateFindSeller(p) \/ AddFindSeller(p)
    \/ CreateProduct(p) \/ AddFindByIdAndUpdate(p)
    \/ CreatePurchase(p) \/ AddPurchase(p)
    \/ CreateCommit(p) \/ AddCommit(p)
    \/ CreateAbort(p) \/ AddAbort(p)
    \/ CreateEndSession(p) \/ AddEndSession(p)

Fairness == \A p \in Procs : WF_vars(Step(p))

LiveSpec == Init /\ [][Next]_vars /\ Fairness

TypeOK ==
    /\ sellers \subseteq SellerIds
    /\ nextId \in 1..(MaxCalls + 2)
    /\ calls \in 0..MaxCalls
    /\ deleting \subseteq TargetIds
    /\ \A p \in Procs : pc[p] \in {"idle", "Started", "SellerValidated", "ProductMutated",
                                   "LedgerAppended", "Committed", "Caught", "Aborted",
                                   "Returned", "Failed"}

\* ---------------------------------------------------------------- properties
\* indices of the committed Purchase entries that reference product id
EntriesOf(id) == {k \in 1..Len(purchases) : purchases[k].product = id}

RECURSIVE SumQuantity(_, _)
SumQuantity(ledger, id) ==
    IF ledger = <<>> THEN 0
    ELSE (IF Head(ledger).product = id THEN Head(ledger).quantity ELSE 0)
         + SumQuantity(Tail(ledger), id)

\* the step in which request p commits
Commits(p) == pc[p] = "LedgerAppended" /\ pc'[p] = "Committed"

AppendedIndices == (Len(purchases) + 1)..Len(purchases')

\* C1: a Product becomes visible only in a step that also makes visible exactly
\* one Purchase referencing it, with quantity = stock, unitPrice = price and
\* totalPrice = stock x price; and a Purchase of a product that was not visible
\* becomes visible only together with that product.
C1_CreateStep ==
    /\ \A i \in DOMAIN products' \ DOMAIN products :
          /\ Len(purchases') = Len(purchases) + 1
          /\ \A k \in 1..Len(purchases) : purchases[k].product # i
          /\ LET e == purchases'[Len(purchases')] IN
               /\ e.product = i
               /\ e.quantity = products'[i].stock
               /\ e.unitPrice = products'[i].price
               /\ e.totalPrice = products'[i].stock * products'[i].price
    /\ \A k \in AppendedIndices :
          purchases'[k].product \notin DOMAIN products
             => purchases'[k].product \in DOMAIN products'

C1_CreateAtomic == [][C1_CreateStep]_vars

C1_Witness ==
    \E p \in Procs :
        /\ op[p] = "create"
        /\ pc[p] = "Committed"
        /\ product[p].id \in DOMAIN products
        /\ Cardinality(EntriesOf(product[p].id)) = 1

\* C2: the commit of an addToStock with delta d on a product whose committed
\* stock is s and price is p leaves stock s + d and appends exactly one Purchase
\* with quantity d, unitPrice p and totalPrice d x p.
C2_AddStep ==
    \A p \in Procs :
        (op[p] = "addToStock" /\ Commits(p)) =>
            LET id == arg[p].id
                d == arg[p].payload.stock
            IN /\ id \in DOMAIN products
               /\ id \in DOMAIN products'
               /\ products'[id].stock = products[id].stock + d
               /\ Len(purchases') = Len(purchases) + 1
               /\ LET e == purchases'[Len(purchases')] IN
                    /\ e.product = id
                    /\ e.quantity = d
                    /\ e.unitPrice = products[id].price
                    /\ e.totalPrice = d * products[id].price

C2_AddStockCommit == [][C2_AddStep]_vars

C2_Witness ==
    \E p \in Procs :
        /\ op[p] = "addToStock"
        /\ pc[p] = "Committed"
        /\ arg[p].id \in DOMAIN products
        /\ products[arg[p].id].stock = product[p].doc.stock + arg[p].payload.stock
        /\ purchases[Len(purchases)].quantity = arg[p].payload.stock

\* two addToStock calls on the same product that are in flight together and
\* have both reached the end of their try / catch block
BothSettling(p, q) ==
    /\ p # q
    /\ op[p] = "addToStock" /\ op[q] = "addToStock"
    /\ arg[p].id = arg[q].id
    /\ pc[p] \in {"Committed", "Aborted"}
    /\ pc[q] \in {"Committed", "Aborted"}
    /\ arg[p].id \in DOMAIN products

\* the call found its seller and its product and met no storage failure
Unhindered(p) ==
    thrown[p] \notin {InvalidSellerError, ProductNotFoundError, StorageError}

\* the stock holds every committed increment (it is the sum of the ledger's
\* quantities, d1 and d2 among them), and each call has its own ledger entry
BothApplied(p, q) ==
    LET id == arg[p].id
        dp == arg[p].payload.stock
        dq == arg[q].payload.stock
    IN /\ products[id].stock = SumQuantity(purchases, id)
       /\ \E k1, k2 \in EntriesOf(id) :
             /\ k1 # k2
             /\ purchases[k1].quantity = dp /\ purchases[k1].user = arg[p].user
             /\ purchases[k2].quantity = dq /\ purchases[k2].user = arg[q].user

\* C3 (as claimed): two concurrent addToStock calls on one product both
\* commit, whatever the interleaving, giving stock s + d1 + d2 and two entries.
C3_BothAlwaysCommit ==
    \A p, q \in Procs :
        (BothSettling(p, q) /\ Unhindered(p) /\ Unhindered(q)) =>
            /\ pc[p] = "Committed"
            /\ pc[q] = "Committed"
            /\ BothApplied(p, q)

\* C3 (amended): when two concurrent addToStock calls on one product both
\* commit, the stock is s + d1 + d2 and the ledger holds an entry for each; a
\* call that fails instead was refused with a write conflict and wrote nothing.
C3_NoLostIncrement ==
    \A p, q \in Procs :
        (BothSettling(p, q) /\ Unhindered(p) /\ Unhindered(q)) =>
            /\ (pc[p] = "Committed" /\ pc[q] = "Committed") => BothApplied(p, q)
            /\ pc[q] = "Aborted" =>
                  /\ thrown[q] = WriteConflictError
                  /\ txn[q].prodW = {} /\ txn[q].purW = <<>>
                  /\ pc[p] = "Committed" =>
                        /\ products[arg[p].id].stock = SumQuantity(purchases, arg[p].id)
                        /\ \E k \in EntriesOf(arg[p].id) :
                              purchases[k].quantity = arg[p].payload.stock

C3_Witness ==
    \E p, q \in Procs :
        /\ BothSettling(p, q)
        /\ pc[p] = "Committed" /\ pc[q] = "Committed"
        /\ arg[p].payload.stock # arg[q].payload.stock
        /\ product[p].doc.stock = product[q].doc.stock + arg[q].payload.stock
        /\ products[arg[p].id].stock =
              product[q].doc.stock + arg[q].payload.stock + arg[p].payload.stock
        /\ BothApplied(p, q)

\* C4: for every visible product the committed stock is the sum of the
\* quantities of the committed Purchase entries that reference it.
C4_StockMatchesLedger ==
    \A id \in DOMAIN products : products[id].stock = SumQuantity(purchases, id)

C4_Witness ==
    \E id \in DOMAIN products :
        /\ Cardinality(EntriesOf(id)) >= 2
        /\ \E p \in Procs : op[p] = "addToStock" /\ pc[p] = "Committed" /\ arg[p].id = id

\* C5: a call that fails inside its transaction has called abortTransaction
\* once before its error reaches the caller, rejects with exactly one error and
\* no result, and none of its steps changes the committed products or purchases.
C5_FailedState ==
    \A p \in Procs :
        /\ (pc[p] = "Failed" /\ err[p] # MissingFieldsError) => aborts[p] = 1
        /\ pc[p] \in {"Aborted", "Failed"} => (err[p] # NoError /\ result[p] = Null)
        /\ pc[p] \in {"Committed", "Returned"} => (err[p] = NoError /\ aborts[p] = 0)

C5_FailingStep ==
    \A p \in Procs :
        /\ (pc'[p] # pc[p] /\ ~Commits(p)) => UNCHANGED dbVars
        /\ (pc'[p] = "Failed" /\ pc[p] # "Failed") => pc[p] \in {"Aborted", "idle", "Returned"}
        /\ pc[p] \in {"Caught", "Aborted"} => pc'[p] \in {pc[p], "Aborted", "Failed"}

C5_AbortBeforeError == [](C5_FailedState) /\ [][C5_FailingStep]_vars

C5_Witness ==
    \E p \in Procs :
        /\ pc[p] = "Failed"
        /\ aborts[p] = 1
        /\ err[p] = WrapError(ErrorPrefix(op[p]), StorageError)
        /\ purchases # <<>>

\* C6: a create whose seller id does not resolve is caught with "Invalid seller
\* ID provided", rejects with a 400 error carrying that cause, and none of its
\* steps changes the committed products or purchases.
InvalidReference == CustomError(400, <<"Product create failed", "Invalid seller ID provided">>)

C6_Step ==
    \A p \in Procs :
        op[p] = "create" =>
            /\ ( /\ pc[p] = "Started" /\ pc'[p] # "Started"
                 /\ arg[p].payload.seller \notin sellers
                 /\ thrown'[p] # StorageError )
                  => (pc'[p] = "Caught" /\ thrown'[p] = InvalidSellerError
                      /\ UNCHANGED dbVars)
            /\ (pc[p] = "Caught" /\ thrown[p] = InvalidSellerError /\ pc'[p] # "Caught")
                  => (pc'[p] = "Aborted" /\ err'[p] = InvalidReference /\ UNCHANGED dbVars)
            /\ (pc[p] = "Aborted" /\ err[p] = InvalidReference /\ pc'[p] # "Aborted")
                  => (pc'[p] = "Failed" /\ err'[p] = InvalidReference /\ UNCHANGED dbVars)

C6_InvalidSellerCreate == [][C6_Step]_vars

C6_Witness ==
    \E p \in Procs :
        /\ op[p] = "create"
        /\ pc[p] = "Failed"
        /\ err[p] = InvalidReference
        /\ products = <<>> /\ purchases = <<>>

\* C7 (as claimed): an addToStock that fails because its product does not exist
\* rejects with a 404-class error.
C7_NotFoundIs404 ==
    \A p \in Procs :
        (op[p] = "addToStock" /\ pc[p] = "Failed"
            /\ err[p].message = <<"Stock update failed", "Product not found">>)
          => err[p].status = 404

\* C8 (as claimed): the stock of every committed product is non-negative.
C8_StockNonNegative ==
    \A id \in DOMAIN products : products[id].stock >= 0

\* C9: every committed Purchase has totalPrice = quantity x unitPrice, and its
\* unitPrice is the price of the product it references.
C9_TotalPrice ==
    \A k \in 1..Len(purchases) :
        LET e == purchases[k] IN
          /\ e.totalPrice = e.quantity * e.unitPrice
          /\ e.product \in DOMAIN products => e.unitPrice = products[e.product].price

C9_Witness ==
    \E p \in Procs :
        /\ op[p] = "addToStock"
        /\ pc[p] = "Committed"
        /\ Len(purchases) >= 2
        /\ purchases[Len(purchases)].quantity < 0
        /\ purchases[Len(purchases)].totalPrice < 0

\* C10: committed Purchase entries are never modified or removed; a step that
\* commits a create or addToStock appends exactly one entry, every other step
\* (a failing call's included) appends none.
C10_Step ==
    /\ Len(purchases') >= Len(purchases)
    /\ \A k \in 1..Len(purchases) : purchases'[k] = purchases[k]
    /\ (\E p \in Procs : Commits(p)) => Len(purchases') = Len(purchases) + 1
    /\ ~(\E p \in Procs : Commits(p)) => Len(purchases') = Len(purchases)

C10_AppendOnly == [][C10_Step]_vars

C10_Witness ==
    /\ Len(purchases) >= 2
    /\ \E p, q \in Procs : pc[p] = "Committed" /\ pc[q] = "Failed" /\ aborts[q] = 1

\* C11: a step of bulkDelete removes only products whose ids are in its payload,
\* leaves every other product as it was and leaves the committed Purchase
\* entries unchanged; and no other step removes a product.
C11_Step ==
    /\ deleting' # deleting =>
          /\ purchases' = purchases
          /\ DOMAIN products' \subseteq DOMAIN products
          /\ (DOMAIN products \ DOMAIN products') \subseteq (deleting \cup deleting')
          /\ \A i \in DOMAIN products' : products'[i] = products[i]
    /\ (DOMAIN products \ DOMAIN products') # {} => deleting' # deleting

C11_BulkDeleteFrame == [][C11_Step]_vars

C11_Witness ==
    /\ 1 \notin DOMAIN products
    /\ 2 \in DOMAIN products
    /\ deleting = {}
    /\ EntriesOf(1) # {}
    /\ EntriesOf(2) # {}

\* C12 (as claimed): the product a committing addToStock resolves with has the
\* post-increment stock s + d, s being the committed stock before the commit.
C12_Step ==
    \A p \in Procs :
        (op[p] = "addToStock" /\ Commits(p)) =>
            result'[p].doc.stock = products[arg[p].id].stock + arg[p].payload.stock

C12_ReturnsUpdated == [][C12_Step]_vars

\* the moves of one transaction: the fixed order, a throw from any step of the
\* try block into the catch block, the abort, and the end of the call
TransactionMoves ==
    { <<"Started", "SellerValidated">>, <<"SellerValidated", "ProductMutated">>,
      <<"ProductMutated", "LedgerAppended">>, <<"LedgerAppended", "Committed">>,
      <<"Started", "Caught">>, <<"SellerValidated", "Caught">>,
      <<"ProductMutated", "Caught">>, <<"LedgerAppended", "Caught">>,
      <<"Caught", "Aborted">>, <<"Committed", "Returned">>, <<"Aborted", "Failed">> }

\* a new call: its transaction starts, or create rejects the payload
CallMoves == {"idle", "Returned", "Failed"} \X {"Started", "Failed"}

C13_Step ==
    \A p \in Procs :
        pc'[p] # pc[p] => <<pc[p], pc'[p]>> \in TransactionMoves \cup CallMoves

C13_State ==
    \A p \in Procs :
        /\ pc[p] \in {"SellerValidated", "ProductMutated", "LedgerAppended", "Committed"}
              => seller[p] # Null
        /\ txn[p].prodW # {} => (seller[p] # Null /\ pc[p] \notin {"Started", "SellerValidated"})
        /\ txn[p].purW # <<>> => (txn[p].prodW # {} /\ pc[p] \notin {"Started", "SellerValidated", "ProductMutated"})

\* C13: a transaction takes its steps only in the order Started,
\* SellerValidated, ProductMutated, LedgerAppended, Committed, a failure leading
\* (through the catch block) to Aborted; no product write or ledger append
\* precedes the validation of the seller; and every started transaction
\* reaches Committed or Aborted.
C13_TransactionOrder ==
    /\ [](C13_State)
    /\ [][C13_Step]_vars
    /\ \A p \in Procs : (pc[p] = "Started") ~> (pc[p] \in {"Committed", "Aborted"})

C13_Witness ==
    \E p, q \in Procs :
        /\ pc[p] = "Committed" /\ txn[p].state = "committed"
        /\ pc[q] = "Aborted" /\ txn[q].state = "aborted"

\* C14 (as claimed): no transaction commits unless the seller its payload
\* references exists at the moment of the commit.
C14_Step ==
    \A p \in Procs : Commits(p) => arg[p].payload.seller \in sellers

C14_SellerExistsAtCommit == [][C14_Step]_vars

\* a required key that is absent, an empty string or a zero price
Lacks(payload, k) ==
    \/ k \notin DOMAIN payload
    \/ IF k \in StringKeys THEN payload[k] = "" ELSE payload[k] = 0

Incomplete(payload) == \E k \in {"name", "price", "seller"} : Lacks(payload, k)

InCreate(p) == op[p] = "create" /\ arg[p].user # ""

C15_State ==
    /\ \A p \in Procs :
          InCreate(p) =>
             IF Incomplete(arg[p].payload)
             THEN /\ pc[p] = "Failed" /\ err[p] = MissingFieldsError
                  /\ txn[p] = NoTxn /\ aborts[p] = 0 /\ ends[p] = 0
             ELSE pc[p] \notin {"idle", "Returned", "Failed"}
    /\ \A i \in DOMAIN products :
          /\ products[i].name # ""
          /\ products[i].price # 0
          /\ products[i].seller \in SellerIds

C15_Step ==
    \A p \in Procs :
        (calls' # calls /\ Free(p) /\ op'[p] = "create" /\ arg'[p].user # ""
            /\ pc'[p] = "Failed")
            => (UNCHANGED dbVars /\ txn'[p] = NoTxn /\ err'[p] = MissingFieldsError)

\* C15: a create whose name, price or seller is absent or empty fails with
\* the missing-field error before any transaction is started and leaves the
\* database as it was; every committed Product has a non-empty name, a price
\* and a seller reference.
C15_RequiredFields == [](C15_State) /\ [][C15_Step]_vars

C15_Witness ==
    \E p \in Procs :
        /\ InCreate(p) /\ "seller" \notin DOMAIN arg[p].payload
        /\ pc[p] = "Failed" /\ err[p] = MissingFieldsError
        /\ DOMAIN products = {1, 2}

\* C16 (as claimed): the sellerName of every committed Purchase is the name of
\* the seller its seller reference points to.
C16_SellerNameMatches ==
    \A k \in 1..Len(purchases) :
        purchases[k].sellerName = SellerName(purchases[k].seller)

\* C17 (as claimed): the owning user of every committed Purchase is the owning
\* user of the product it references.
C17_TenantIsolation ==
    \A k \in 1..Len(purchases) :
        purchases[k].product \in DOMAIN products
            => purchases[k].user = products[purchases[k].product].user

C18_Step ==
    \A p \in Procs :
        (op[p] = "addToStock" /\ pc'[p] # pc[p] /\ ~Idle(p)) =>
            IF Commits(p)
            THEN LET id == arg[p].id IN
                 /\ DOMAIN products' = DOMAIN products
                 /\ id \in DOMAIN products
                 /\ \A i \in DOMAIN products \ {id} : products'[i] = products[i]
                 /\ products'[id] = [products[id] EXCEPT !.stock = products'[id].stock]
                 /\ products'[id].stock = products[id].stock + arg[p].payload.stock
                 /\ Len(purchases') = Len(purchases) + 1
                 /\ SubSeq(purchases', 1, Len(purchases)) = purchases
            ELSE UNCHANGED dbVars

\* C18: a committed addToStock on product P changes only the stock of P: the
\* other fields of P, the other products and the Purchase entries committed
\* before are unchanged; an addToStock that fails changes nothing.
C18_AddStockFrame == [][C18_Step]_vars

C18_Witness ==
    \E p \in Procs :
        /\ op[p] = "addToStock" /\ pc[p] = "Committed"
        /\ DOMAIN products = {1, 2}
        /\ Len(purchases) = 3

\* C19: every session that is opened is ended exactly once on every path, and
\* no call returns while its transaction is still open.
C19_SessionEnded ==
    \A p \in Procs :
        /\ ends[p] <= 1
        /\ pc[p] \in {"Started", "SellerValidated", "ProductMutated", "LedgerAppended",
                      "Committed", "Caught", "Aborted"}
              => (ends[p] = 0 /\ txn[p].state # "none")
        /\ pc[p] \in {"Returned", "Failed"} =>
              /\ txn[p] = NoTxn
              /\ IF pc[p] = "Failed" /\ err[p] = MissingFieldsError
                 THEN ends[p] = 0
                 ELSE ends[p] = 1

C19_Witness ==
    \E p, q \in Procs :
        /\ pc[p] = "Failed" /\ err[p] = AbortAfterCommitError /\ ends[p] = 1
        /\ pc[q] = "Returned" /\ ends[q] = 1

====
